---- MODULE Spec2Model ----
(***************************************************************************)
(* Model of roast_my_cv: the CV evaluation engine of cv_processor.py       *)
(* (CVProcessor) and the two command line runs that drive it               *)
(* (process_new_cv.main and cv_processor.main).                            *)
(*                                                                         *)
(* Texts are strings, matched as Python matches them (str.lower, the `in`  *)
(* substring test, str.split, re.search).  Rates are Python floats: the    *)
(* model carries IEEE-754 binary64 values exactly, as a 53 bit significand *)
(* and an exponent, and rounds every operation to nearest-even.            *)
(***************************************************************************)
EXTENDS Integers, Sequences, FiniteSets, TLC

(***************************************************************************)
(* Natural numbers of arbitrary size: little-endian digit sequences.       *)
(***************************************************************************)
DigitBits == 15
Base == 2^DigitBits

Digit(a, i) == IF i >= 1 /\ i <= Len(a) THEN a[i] ELSE 0

RECURSIVE BigNorm(_)
BigNorm(a) ==
    IF a = <<>> THEN a
    ELSE IF a[Len(a)] = 0 THEN BigNorm(SubSeq(a, 1, Len(a) - 1))
    ELSE a

RECURSIVE BigFromInt(_)
BigFromInt(n) == IF n = 0 THEN <<>> ELSE <<n % Base>> \o BigFromInt(n \div Base)

BigCmp(a, b) ==
    IF Len(a) # Len(b) THEN (IF Len(a) < Len(b) THEN -1 ELSE 1)
    ELSE LET diff == {i \in 1..Len(a) : a[i] # b[i]}
         IN IF diff = {} THEN 0
            ELSE LET k == CHOOSE i \in diff : \A j \in diff : j <= i
                 IN IF a[k] < b[k] THEN -1 ELSE 1

RECURSIVE AddFrom(_, _, _, _)
AddFrom(a, b, i, c) ==
    IF i > Len(a) /\ i > Len(b) THEN (IF c = 0 THEN <<>> ELSE <<c>>)
    ELSE LET s == Digit(a, i) + Digit(b, i) + c
         IN <<s % Base>> \o AddFrom(a, b, i + 1, s \div Base)

BigAdd(a, b) == AddFrom(a, b, 1, 0)

RECURSIVE SubFrom(_, _, _, _)
SubFrom(a, b, i, br) ==
    IF i > Len(a) THEN <<>>
    ELSE LET d == Digit(a, i) - Digit(b, i) - br
         IN <<d % Base>> \o SubFrom(a, b, i + 1, IF d < 0 THEN 1 ELSE 0)

\* a - b, for a >= b
BigSub(a, b) == BigNorm(SubFrom(a, b, 1, 0))

RECURSIVE MulSmallFrom(_, _, _, _)
MulSmallFrom(a, d, i, c) ==
    IF i > Len(a) THEN BigFromInt(c)
    ELSE LET p == a[i] * d + c
         IN <<p % Base>> \o MulSmallFrom(a, d, i + 1, p \div Base)

ShiftDigits(a, k) == IF a = <<>> THEN a ELSE [j \in 1..k |-> 0] \o a

\* a times the digits lo..hi of b, each at its place
RECURSIVE BigMulFrom(_, _, _, _)
BigMulFrom(a, b, lo, hi) ==
    IF lo > hi THEN <<>>
    ELSE IF lo = hi THEN ShiftDigits(BigNorm(MulSmallFrom(a, b[lo], 1, 0)), lo - 1)
    ELSE BigAdd(BigMulFrom(a, b, lo, (lo + hi) \div 2),
                BigMulFrom(a, b, ((lo + hi) \div 2) + 1, hi))

BigMul(a, b) == BigMulFrom(a, b, 1, Len(b))

\* a * 2^n
BigShl(a, n) ==
    LET r == n % DigitBits
        w == [i \in 1..(Len(a) + 1) |->
                ((Digit(a, i) * 2^r) % Base) + (Digit(a, i - 1) \div 2^(DigitBits - r))]
    IN ShiftDigits(BigNorm(w), n \div DigitBits)

\* floor(a / 2^n)
BigShr(a, n) ==
    LET r == n % DigitBits
        t == SubSeq(a, (n \div DigitBits) + 1, Len(a))
    IN BigNorm([i \in 1..Len(t) |->
                 (t[i] \div 2^r) + (Digit(t, i + 1) % 2^r) * 2^(DigitBits - r)])

BitLen(a) ==
    IF a = <<>> THEN 0
    ELSE (Len(a) - 1) * DigitBits
         + (CHOOSE k \in 1..DigitBits : 2^(k - 1) <= a[Len(a)] /\ a[Len(a)] < 2^k)

BigOdd(a) == Digit(a, 1) % 2 = 1

(***************************************************************************)
(* Python float (IEEE-754 binary64), values >= 0.                          *)
(* [sig, exp] stands for sig * 2^exp; sig has exactly MantBits bits, or is *)
(* <<>> for zero.  Every value has one representation, so = is ==.         *)
(***************************************************************************)
MantBits == 53

FZero == [sig |-> <<>>, exp |-> 0]

\* round n * 2^e (plus a positive fraction of its last place when sticky)
\* to nearest, ties to even
FRound(n, e, sticky) ==
    LET L == BitLen(n)
        s == L - MantBits
        \* the rounded quotient q2, renormalised when rounding carried out
        Carry(q2) == IF BitLen(q2) > MantBits
                     THEN [sig |-> BigShr(q2, 1), exp |-> e + s + 1]
                     ELSE [sig |-> q2, exp |-> e + s]
        \* c is -1, 0, 1 as the bits cut from q are below, at, above one half
        Nearest(q, c) == Carry(IF c > 0 \/ (c = 0 /\ (sticky \/ BigOdd(q)))
                               THEN BigAdd(q, <<1>>) ELSE q)
        Cut(q) == Nearest(q, BigCmp(BigSub(n, BigShl(q, s)), BigShl(<<1>>, s - 1)))
    IN IF L <= MantBits
       THEN [sig |-> BigShl(n, MantBits - L), exp |-> e - (MantBits - L)]
       ELSE Cut(BigShr(n, s))

FFromInt(n) == IF n = 0 THEN FZero ELSE FRound(BigFromInt(n), 0, FALSE)

FMul(x, y) ==
    IF x = FZero \/ y = FZero THEN FZero
    ELSE FRound(BigMul(x.sig, y.sig), x.exp + y.exp, FALSE)

FAdd(x, y) ==
    IF x = FZero THEN y
    ELSE IF y = FZero THEN x
    ELSE LET e == IF x.exp < y.exp THEN x.exp ELSE y.exp
         IN FRound(BigAdd(BigShl(x.sig, x.exp - e), BigShl(y.sig, y.exp - e)), e, FALSE)

GuardBits == 56

\* one digit of schoolbook long division (Knuth's algorithm D): the quotient
\* digit of rem / d for rem < d * Base, estimated from the leading digits of
\* rem and d (d's top digit is at least Base / 2) and corrected downwards
QuotDigit(rem, d) ==
    LET L   == Len(d)
        est == (Digit(rem, L + 1) * Base + Digit(rem, L)) \div d[L]
        q0  == IF est > Base - 1 THEN Base - 1 ELSE est
        Correct(q) == IF q > 0 /\ BigCmp(BigNorm(MulSmallFrom(d, q, 1, 0)), rem) > 0
                      THEN q - 1 ELSE q
    IN Correct(Correct(q0))

\* <<quotient, remainder>> of n / d, taking the digits n[1..i] after the
\* digits above them gave the quotient digits q and left the remainder rem,
\* which is below d at every step
RECURSIVE DivLoop(_, _, _, _, _)
DivLoop(n, d, i, rem, q) ==
    IF i = 0 \/ BigCmp(rem, d) >= 0 THEN <<q, rem>>
    ELSE LET \* every quotient digit is a digit; comparing it here settles
             \* this step's remainder before the next digit is taken
             Take(r2, qd) ==
                 IF qd \in 0..(Base - 1)
                 THEN DivLoop(n, d, i - 1,
                              BigSub(r2, BigNorm(MulSmallFrom(d, qd, 1, 0))),
                              <<qd>> \o q)
                 ELSE <<q, r2>>
             Bring(r2) == Take(r2, QuotDigit(r2, d))
         IN Bring(BigNorm(<<n[i]>> \o rem))

\* the digits of n above the lowest i, which are below d, are the first
\* remainder
BigDivMod(n, d) ==
    LET k  == DigitBits - (BitLen(d) % DigitBits)
        sh == IF k = DigitBits THEN 0 ELSE k
        Unshift(qr) == <<BigNorm(qr[1]), BigShr(qr[2], sh)>>
        From(n2, d2, i) ==
            Unshift(DivLoop(n2, d2, i, BigNorm(SubSeq(n2, i + 1, Len(n2))), <<>>))
        Shifted(n2, d2) ==
            From(n2, d2, IF Len(n2) < Len(d2) THEN 0 ELSE Len(n2) - Len(d2) + 1)
    IN Shifted(BigShl(n, sh), BigShl(d, sh))

\* x / y for y > 0
FDiv(x, y) ==
    IF x = FZero THEN FZero
    ELSE LET Quotient(qr) == FRound(qr[1], x.exp - y.exp - GuardBits, qr[2] # <<>>)
         IN Quotient(BigDivMod(BigShl(x.sig, GuardBits), y.sig))

\* -1, 0, 1 as x <, =, > y
FCmp(x, y) ==
    IF x = y THEN 0
    ELSE IF x = FZero THEN -1
    ELSE IF y = FZero THEN 1
    ELSE IF x.exp # y.exp THEN (IF x.exp < y.exp THEN -1 ELSE 1)
    ELSE BigCmp(x.sig, y.sig)

FOne == FFromInt(1)

(***************************************************************************)
(* Python str operations.  Texts are strings of characters below U+0100.   *)
(***************************************************************************)
\* the characters below U+0100 that str.lower() changes, and what it makes of
\* them
UpperCase == "ABCDEFGHIJKLMNOPQRSTUVWXYZÀÁÂÃÄÅÆÇÈÉÊËÌÍÎÏÐÑÒÓÔÕÖØÙÚÛÜÝÞ"
LowerCase == "abcdefghijklmnopqrstuvwxyzàáâãäåæçèéêëìíîïðñòóôõöøùúûüýþ"
Digits == "0123456789"
\* the characters below U+0100 with str.isspace(): space, \t, \n, \r, \f,
\* U+000B, U+001C..U+001F, U+0085 and U+00A0
Whitespace == " \t\n\r\f "

CharAt(s, i) == SubSeq(s, i, i)

Chars(s) == {CharAt(s, k) : k \in 1..Len(s)}
DigitChars == Chars(Digits)
WhitespaceChars == Chars(Whitespace)

\* the lower-case letter of each upper-case letter
LowerOf ==
    [c \in Chars(UpperCase) |->
        CharAt(LowerCase, CHOOSE k \in 1..Len(UpperCase) : CharAt(UpperCase, k) = c)]

LowerChar(c) == IF c \in DOMAIN LowerOf THEN LowerOf[c] ELSE c

\* str.lower()
RECURSIVE lower(_)
lower(s) ==
    IF Len(s) = 0 THEN s
    ELSE IF Len(s) = 1 THEN LowerChar(s)
    ELSE LET h == Len(s) \div 2
         IN lower(SubSeq(s, 1, h)) \o lower(SubSeq(s, h + 1, Len(s)))

In_Swapped(kw, text) ==
    \E i \in 1..(Len(kw) - Len(text) + 1) : SubSeq(kw, i, i + Len(text) - 1) = text

\* kw in text
In(kw, text) ==
    \E i \in 1..(Len(text) - Len(kw) + 1) : SubSeq(text, i, i + Len(kw) - 1) = kw

\* any(kw in text for kw in keywords)
AnyIn(keywords, text) == \E k \in 1..Len(keywords) : In(keywords[k], text)

\* len(text.split()): the number of maximal runs of non-whitespace characters
WordCount(text) ==
    Cardinality({i \in 1..Len(text) :
                    /\ CharAt(text, i) \notin WhitespaceChars
                    /\ (i = 1 \/ CharAt(text, i - 1) \in WhitespaceChars)})

IsDigit(text, i) == i >= 1 /\ i <= Len(text) /\ CharAt(text, i) \in DigitChars

\* text[i..] starts with lit
StartsAt(text, i, lit) == i + Len(lit) - 1 <= Len(text) /\ SubSeq(text, i, i + Len(lit) - 1) = lit

\* re.search(r'\d+%|\d+x|increased|reduced|improved \d+', text) finds a match
MetricsPattern(text) ==
    \E i \in 1..Len(text) :
        \/ IsDigit(text, i) /\ StartsAt(text, i + 1, "%")
        \/ IsDigit(text, i) /\ StartsAt(text, i + 1, "x")
        \/ StartsAt(text, i, "increased")
        \/ StartsAt(text, i, "reduced")
        \/ StartsAt(text, i, "improved ") /\ IsDigit(text, i + Len("improved "))

ToSet(list) == {list[i] : i \in 1..Len(list)}

(***************************************************************************)
(* CVProcessor: the two taxonomies, in dict order.                         *)
(***************************************************************************)
EXPECTED_CV_ELEMENTS == <<
    [name |-> "career_objective",
     keywords |-> <<"career objective", "objective", "summary", "professional summary">>],
    [name |-> "skills",
     keywords |-> <<"skills", "technical skills", "competencies", "expertise">>],
    [name |-> "education",
     keywords |-> <<"education", "academic", "degree", "university", "college">>],
    [name |-> "experience",
     keywords |-> <<"experience", "work history", "employment", "professional experience">>],
    [name |-> "contact",
     keywords |-> <<"email", "phone", "address", "contact", "linkedin">>],
    [name |-> "achievements",
     keywords |-> <<"achievement", "award", "accomplishment", "certification">>],
    [name |-> "projects",
     keywords |-> <<"project", "portfolio">> ] >>

COMMON_CV_ISSUES_NoVague == <<
    [name |-> "typos",
     keywords |-> <<"typo", "spelling", "grammar", "grammatical">>],
    [name |-> "vague_objective",
     keywords |-> <<"generic", "unclear objective", "bland objective">>],
    [name |-> "skill_organization",
     keywords |-> <<"organize skills", "categorize skills", "skill structure">>],
    [name |-> "no_metrics",
     keywords |-> <<"quantif", "metric", "number", "measurable", "achievement">>],
    [name |-> "buzzwords",
     keywords |-> <<"buzzword", "clichÃ©", "jargon", "overused">>],
    [name |-> "formatting",
     keywords |-> <<"format", "layout", "structure", "consistency">>],
    [name |-> "length",
     keywords |-> <<"too long", "too short", "concise", "verbose">>],
    [name |-> "relevance",
     keywords |-> <<"relevant", "irrelevant", "focus">>] >>

COMMON_CV_ISSUES == <<
    [name |-> "typos",
     keywords |-> <<"typo", "spelling", "grammar", "grammatical">>],
    [name |-> "vague_objective",
     keywords |-> <<"vague", "generic", "unclear objective", "bland objective">>],
    [name |-> "skill_organization",
     keywords |-> <<"organize skills", "categorize skills", "skill structure">>],
    [name |-> "no_metrics",
     keywords |-> <<"quantif", "metric", "number", "measurable", "achievement">>],
    [name |-> "buzzwords",
     keywords |-> <<"buzzword", "clichÃ©", "jargon", "overused">>],
    [name |-> "formatting",
     keywords |-> <<"format", "layout", "structure", "consistency">>],
    [name |-> "length",
     keywords |-> <<"too long", "too short", "concise", "verbose">>],
    [name |-> "relevance",
     keywords |-> <<"relevant", "irrelevant", "focus">>] >>

Names(taxonomy) == {taxonomy[i].name : i \in 1..Len(taxonomy)}

Keywords(taxonomy, name) ==
    taxonomy[CHOOSE i \in 1..Len(taxonomy) : taxonomy[i].name = name].keywords

\* the categories of a taxonomy whose keywords occur in text, in dict order
Mentioned(taxonomy, text) ==
    LET hit == SelectSeq(taxonomy, LAMBDA c : AnyIn(c.keywords, text))
    IN [i \in 1..Len(hit) |-> hit[i].name]

(***************************************************************************)
(* CVProcessor._detect_cv_issues                                           *)
(***************************************************************************)
GenericWords == <<"seeking", "looking for", "opportunity">>
SpecificWords == <<"specific", "specialize", "expert in">>
buzzwords == <<"synergy", "innovative", "dynamic", "results-driven", "team player",
               "hard worker">>
MinBuzzwords == 2
MinWords == 200
MaxWords == 1000

LengthIssue_Inclusive(word_count) ==
    IF word_count <= MinWords THEN <<"length">>
    ELSE IF word_count >= MaxWords THEN <<"length">>
    ELSE <<>>

LengthIssue_TwoIfs(word_count) ==
    (IF word_count < MinWords THEN <<"length">> ELSE <<>>)
    \o (IF word_count < MaxWords THEN <<"length">> ELSE <<>>)

\* if word_count < 200: append 'length' / elif word_count > 1000: append 'length'
LengthIssue(word_count) ==
    IF word_count < MinWords THEN <<"length">>
    ELSE IF word_count > MaxWords THEN <<"length">>
    ELSE <<>>

detect_cv_issues(cv_text) ==
    LET cv_lower == lower(cv_text)
        word_count == WordCount(cv_text)
        has_skills == AnyIn(Keywords(EXPECTED_CV_ELEMENTS, "skills"), cv_lower)
        has_experience == AnyIn(Keywords(EXPECTED_CV_ELEMENTS, "experience"), cv_lower)
    IN (IF AnyIn(GenericWords, cv_lower) /\ ~AnyIn(SpecificWords, cv_lower)
        THEN <<"vague_objective">> ELSE <<>>)
       \o (IF ~MetricsPattern(cv_text) THEN <<"no_metrics">> ELSE <<>>)
       \o (IF Cardinality({k \in 1..Len(buzzwords) : In(buzzwords[k], cv_lower)})
                >= MinBuzzwords
           THEN <<"buzzwords">> ELSE <<>>)
       \o LengthIssue(word_count)
       \o (IF ~has_skills \/ ~has_experience THEN <<"formatting">> ELSE <<>>)

(***************************************************************************)
(* CVProcessor.calculate_section_coverage                                  *)
(***************************************************************************)
TotalSections_AllKeys(sections_present) == Cardinality(DOMAIN sections_present)

\* sum(sections_present.values())
TotalSections(sections_present) ==
    Cardinality({sec \in DOMAIN sections_present : sections_present[sec]})

calculate_section_coverage(cv_text, critique) ==
    LET cv_lower == lower(cv_text)
        critique_lower == lower(critique)
        sections == Names(EXPECTED_CV_ELEMENTS)
        sections_present ==
            [sec \in sections |-> AnyIn(Keywords(EXPECTED_CV_ELEMENTS, sec), cv_lower)]
        sections_covered ==
            [sec \in sections |-> AnyIn(Keywords(EXPECTED_CV_ELEMENTS, sec), critique_lower)]
        Result(present, covered, total_sections, covered_sections) ==
            [total_sections_in_cv |-> total_sections,
             sections_addressed_in_critique |-> covered_sections,
             coverage_rate |-> IF total_sections > 0
                               THEN FDiv(FFromInt(covered_sections), FFromInt(total_sections))
                               ELSE FZero,
             sections_present |-> present,
             sections_covered |-> covered]
        Totals(present, covered) ==
            Result(present, covered, TotalSections(present),
                   Cardinality({sec \in sections : present[sec] /\ covered[sec]}))
    IN Totals(sections_present, sections_covered)

(***************************************************************************)
(* CVProcessor.calculate_issue_detection_metrics                           *)
(* The optional argument ground_truth_issues is [none |-> TRUE] for None   *)
(* and [none |-> FALSE, list |-> the caller's list] otherwise.             *)
(***************************************************************************)
NoGroundTruth == [none |-> TRUE, list |-> <<>>]
GroundTruth(list) == [none |-> FALSE, list |-> list]

ResolveGroundTruth_Inverted(cv_text, ground_truth_issues) ==
    IF ~ground_truth_issues.none
    THEN [issues |-> detect_cv_issues(cv_text), runs |-> 1]
    ELSE [issues |-> ground_truth_issues.list, runs |-> 0]

\* the ground truth a call scores against, and how many times it ran the
\* detector to get it
ResolveGroundTruth(cv_text, ground_truth_issues) ==
    IF ground_truth_issues.none
    THEN [issues |-> detect_cv_issues(cv_text), runs |-> 1]
    ELSE [issues |-> ground_truth_issues.list, runs |-> 0]

GroundTruthArgument_Filled(cv_text, ground_truth_issues) ==
    IF ~ground_truth_issues.none /\ ground_truth_issues.list = <<>>
    THEN GroundTruth(detect_cv_issues(cv_text))
    ELSE ground_truth_issues

\* the caller's list after a call that received it: the method rebinds its
\* local name when the argument is None and otherwise only reads the list
\* (set(ground_truth_issues), and the reference put into the returned dict)
GroundTruthArgument(cv_text, ground_truth_issues) == ground_truth_issues

FalseNegatives_Listed(ground, detected) ==
    Len(ground) - Cardinality(ToSet(ground) \cap ToSet(detected))

\* len(set(ground_truth_issues) - set(detected_issues))
FalseNegatives(ground, detected) == Cardinality(ToSet(ground) \ ToSet(detected))

F1Score_NoDivision(precision, recall) ==
    LET Over(sum) == IF FCmp(sum, FZero) > 0
                     THEN FMul(FFromInt(2), FMul(precision, recall))
                     ELSE FZero
    IN Over(FAdd(precision, recall))

F1Score_ElseOne(precision, recall) ==
    LET Over(sum) == IF FCmp(sum, FZero) > 0
                     THEN FDiv(FMul(FFromInt(2), FMul(precision, recall)), sum)
                     ELSE FOne
    IN Over(FAdd(precision, recall))

\* 2 * (precision * recall) / (precision + recall) if (precision + recall) > 0 else 0
F1Score(precision, recall) ==
    LET Over(sum) == IF FCmp(sum, FZero) > 0
                     THEN FDiv(FMul(FFromInt(2), FMul(precision, recall)), sum)
                     ELSE FZero
    IN Over(FAdd(precision, recall))

calculate_issue_detection_metrics(cv_text, critique, ground_truth_issues) ==
    LET critique_lower == lower(critique)
        \* the returned dict
        Result(ground, detected_issues, true_positives, false_positives, false_negatives,
               precision, recall) ==
            [precision |-> precision,
             recall |-> recall,
             f1_score |-> F1Score(precision, recall),
             true_positives |-> true_positives,
             false_positives |-> false_positives,
             false_negatives |-> false_negatives,
             ground_truth_issues |-> ground,
             detected_issues |-> detected_issues,
             missed_issues |-> ToSet(ground) \ ToSet(detected_issues),
             extra_mentions |-> ToSet(detected_issues) \ ToSet(ground)]
        Rates(ground, detected_issues, true_positives, false_positives, false_negatives) ==
            Result(ground, detected_issues, true_positives, false_positives, false_negatives,
                   IF true_positives + false_positives > 0
                   THEN FDiv(FFromInt(true_positives),
                             FFromInt(true_positives + false_positives))
                   ELSE FZero,
                   IF true_positives + false_negatives > 0
                   THEN FDiv(FFromInt(true_positives),
                             FFromInt(true_positives + false_negatives))
                   ELSE FZero)
        Counts(ground, detected_issues) ==
            Rates(ground, detected_issues,
                  Cardinality(ToSet(ground) \cap ToSet(detected_issues)),
                  Cardinality(ToSet(detected_issues) \ ToSet(ground)),
                  FalseNegatives(ground, detected_issues))
    IN Counts(ResolveGroundTruth(cv_text, ground_truth_issues).issues,
              Mentioned(COMMON_CV_ISSUES, critique_lower))

(***************************************************************************)
(* Inputs.                                                                 *)
(***************************************************************************)
\* the sample CV of cv_processor.main
SampleCV ==
    "\n        CAREER OBJECTIVE:\n        Seeking a challenging position in data science.\n\n        SKILLS:\n        Python, Machine Learning, Data Analysis\n\n        EDUCATION:\n        University of Example - B.Sc. Computer Science (2020)\n\n        WORK EXPERIENCE:\n        Data Analyst at Company XYZ (2020-Present)\n        - Analyzed data\n        - Created reports\n        - Worked with team\n        "

\* the mock critiques of cv_processor.main
MockGentle ==
    "Your CV shows good foundation. Consider adding metrics to quantify achievements."
MockMedium ==
    "Missing quantifiable results. Experience section is too vague. Skills need organization."
MockBrutal ==
    "Generic buzzwords everywhere. 'Analyzed data' - what data? How? This needs metrics."

\* documents for the detector: a lead, a verb and what follows the verb
DocLeads == {"", "Seeking a role. "}
DocVerbs == {"increased", "Increased", "reduced", "REDUCED", "improved", "Improved",
             "managed"}
DocTails == {"", " sales", " 5", " 50%", " 3x", " 3X", " sales by 20"}
\* n words with sep between them
RECURSIVE JoinedWords(_, _)
JoinedWords(n, sep) ==
    IF n = 0 THEN ""
    ELSE IF n = 1 THEN "cv"
    ELSE JoinedWords(n \div 2, sep) \o sep \o JoinedWords(n - (n \div 2), sep)

\* n words separated by single spaces
Words(n) == JoinedWords(n, " ")

\* a space, and a no-break space (U+00A0) followed by a line tabulation
\* (U+000B)
WordSeparators == {" ", " "}

\* word counts below, at, between and above the two length thresholds
LengthDocWords == {50, 199, 200, 201, 500, 999, 1000, 1001, 1500}
LengthDocs == {JoinedWords(n, sep) : n \in LengthDocWords, sep \in WordSeparators}

DetectorDocs ==
    {lead \o verb \o tail : lead \in DocLeads, verb \in DocVerbs, tail \in DocTails}
    \cup {"", "50%", "3x", " \n\t ",
          JoinedWords(300, " ") \o " skills experience 5%",
          "Dynamic, innovative team player looking for an opportunity; expert in SQL",
          "Skills: synergy. Work history: hard worker, 2x output"}
    \cup LengthDocs

ScoreDocs ==
    {SampleCV, "", "Hello world",
     "Summary: engineer. Skills: Python. Employment: improved 5 tools. Email: a@b.c",
     "PROJECTS and awards: degree in physics, portfolio online"}

ScoreCritiques ==
    {MockGentle, MockMedium, MockBrutal, "",
     "Your career objective, skills, education and experience are fine.",
     "Typos, vague, too long, irrelevant layout, jargon. Contact summary project award ok.",
     "Error: 400 invalid format",
     "A clichÃ©. Such a CLICHÃ©"}

ScoreGroundTruths ==
    {NoGroundTruth,
     GroundTruth(<<>>),
     GroundTruth(<<"vague_objective", "no_metrics">>),
     GroundTruth(<<"typos">>),
     GroundTruth(<<"no_metrics", "length", "no_metrics">>),
     GroundTruth(<<"vague_objective", "salary_gap">>),
     GroundTruth(<<"typos", "vague_objective", "skill_organization", "no_metrics",
                   "buzzwords", "formatting", "length", "relevance">>)}

(***************************************************************************)
(* The state: the arguments and results of the calls, the processor, the   *)
(* files it reads and writes, and the locals of the two main functions.    *)
(***************************************************************************)
VARIABLES
    entry,              \* what runs: "api" or "dataset" (direct calls), "process_new_cv",
                        \* "cv_processor"
    pc,                 \* where the run is
    cv_text,            \* the document text
    critique,           \* argument of the direct calls
    ground_truth_issues,\* argument of the direct calls
    issues_result,      \* what _detect_cv_issues returned
    coverage_result,    \* what calculate_section_coverage returned
    detection_result,   \* what calculate_issue_detection_metrics returned
    pdf,                \* the file at pdf_path and what the extractors do with it
    extract_error,      \* the exception extract_text_from_pdf raised, or "none"
    api_key,            \* an API key is configured
    genai,              \* google.generativeai could be imported
    has_pdfplumber,     \* HAS_PDFPLUMBER: pdfplumber could be imported
    dataset,            \* the CSV at output_path and what is in the place of its
                        \* directory
    critiques,          \* the critiques mapping of the run, in insertion order
    failed,             \* the styles whose generate_content call raised
    df_results,         \* the table evaluate_all_models returned
    eval_detect_runs,   \* detector runs made by that evaluate_all_models call
    best_model,         \* the label process_new_cv reports as best F1
    metrics_file,       \* what is at <stem>_metrics.json in the critiques directory
    steps,              \* the steps the run has executed, in order (the cv_data of
                        \* each call that returned when add_to_dataset is called
                        \* directly)
    taxonomies          \* the class attributes EXPECTED_CV_ELEMENTS and COMMON_CV_ISSUES

vars == <<entry, pc, cv_text, critique, ground_truth_issues, issues_result,
          coverage_result, detection_result, pdf, extract_error, api_key, genai,
          has_pdfplumber, dataset, critiques, failed, df_results, eval_detect_runs,
          best_model, metrics_file, steps, taxonomies>>

apiVars == <<critique, ground_truth_issues, issues_result, coverage_result,
             detection_result>>
runVars == <<pdf, extract_error, api_key, genai, has_pdfplumber, dataset, critiques, failed,
             df_results, eval_detect_runs, best_model, steps>>

\* the two lookup tables as the class body of CVProcessor sets them
ClassAttributes ==
    [EXPECTED_CV_ELEMENTS |-> EXPECTED_CV_ELEMENTS, COMMON_CV_ISSUES |-> COMMON_CV_ISSUES]

NotCalled == [called |-> FALSE, raised |-> "none"]
\* the call returned v; no scoring method raises on str arguments
Returned(v) == [called |-> TRUE, raised |-> "none", value |-> v]

NoCritiques == [none |-> TRUE, items |-> <<>>]
Raises == [raises |-> TRUE, text |-> ""]
Extracts(text) == [raises |-> FALSE, text |-> text]
NoPdf == [exists |-> FALSE, plumber |-> Raises, pypdf2 |-> Raises]
\* nothing at the path of the metrics file
NoMetricsFile == [kind |-> "none", records |-> <<>>]
\* no CSV at output_path, and no directory for it yet
NoDataset == [parent |-> "none", exists |-> FALSE, rows |-> <<>>]

(***************************************************************************)
(* The remaining CVProcessor methods.                                      *)
(***************************************************************************)
\* extract_text_from_pdf on the file f: the text, or the exception raised
extract_text_from_pdf(f, plumber_available) ==
    IF ~f.exists THEN [error |-> "FileNotFoundError", text |-> ""]
    ELSE IF plumber_available /\ ~f.plumber.raises /\ WordCount(f.plumber.text) > 0
    THEN [error |-> "none", text |-> f.plumber.text]
    ELSE IF f.pypdf2.raises THEN [error |-> "Exception", text |-> ""]
    ELSE [error |-> "none", text |-> f.pypdf2.text]

\* parse_cv_text: the row for the dataset (its raw_text column)
parse_cv_text(text) == [raw_text |-> text]

(***************************************************************************)
(* pandas on the raw_text column of the CSV: pd.read_csv types the stored  *)
(* cells, pd.concat puts the new row after them and DataFrame.to_csv       *)
(* writes every value back as text.  A Python value is carried as its kind *)
(* and the text str() gives for it.  Stored cells hold no carriage return; *)
(* a numeric cell has at most 15 digits and a decimal exponent of at most  *)
(* 22 in size, so the float read is the decimal written.                   *)
(***************************************************************************)
\* isspace_ascii of the tokenizer: space, \t, \n, \r, \f and U+000B
AsciiSpace == " \t\n\r\f"
AsciiSpaceChars == Chars(AsciiSpace)

\* the cells read_csv takes for a missing value
NaValues ==
    {"", "#N/A", "#N/A N/A", "#NA", "-1.#IND", "-1.#QNAN", "-NaN", "-nan", "1.#IND",
     "1.#QNAN", "<NA>", "N/A", "NA", "NULL", "NaN", "None", "n/a", "nan", "null"}

\* the spellings of infinity read_csv accepts in any letter case
InfWords == {"inf", "+inf", "infinity", "+infinity"}
NegInfWords == {"-inf", "-infinity"}

\* the first position from i on whose character is not in set
RECURSIVE SkipWhile(_, _, _)
SkipWhile(s, i, set) ==
    IF i <= Len(s) /\ CharAt(s, i) \in set THEN SkipWhile(s, i + 1, set) ELSE i

DigitValue(c) == CHOOSE v \in 0..9 : CharAt(Digits, v + 1) = c

RECURSIVE StrToNat(_)
StrToNat(s) ==
    IF s = "" THEN 0
    ELSE 10 * StrToNat(SubSeq(s, 1, Len(s) - 1)) + DigitValue(CharAt(s, Len(s)))

RECURSIVE NatToStr(_)
NatToStr(n) ==
    IF n < 10 THEN CharAt(Digits, n + 1)
    ELSE NatToStr(n \div 10) \o CharAt(Digits, (n % 10) + 1)

RECURSIVE Zeros(_)
Zeros(n) == IF n <= 0 THEN "" ELSE "0" \o Zeros(n - 1)

StripLeadingZeros(s) == SubSeq(s, SkipWhile(s, 1, {"0"}), Len(s))

RECURSIVE StripTrailingZeros(_)
StripTrailingZeros(s) ==
    IF s # "" /\ CharAt(s, Len(s)) = "0"
    THEN StripTrailingZeros(SubSeq(s, 1, Len(s) - 1))
    ELSE s

\* a cell as the tokenizer reads a number (str_to_int64, precise_xstrtod):
\* blanks, a sign, digits, a fraction, an exponent, blanks.  The value is
\* 0.digits * 10^decpt; integer: the cell has neither fraction nor exponent
Number(s) ==
    LET Parsed(a, b, c, d, es, ee) ==
            LET dot    == d > c
                hasexp == ee > es
                frac   == IF dot THEN SubSeq(s, c + 1, d - 1) ELSE ""
                Made(typed, exp10, end) ==
                    [ok |-> typed # "" /\ end = Len(s) + 1,
                     integer |-> ~dot /\ ~hasexp,
                     negative |-> b > a /\ CharAt(s, a) = "-",
                     digits |-> StripTrailingZeros(StripLeadingZeros(typed)),
                     decpt |-> Len(StripLeadingZeros(typed)) + exp10]
            IN Made(SubSeq(s, b, c - 1) \o frac,
                    (IF hasexp
                     THEN (IF CharAt(s, es - 1) = "-" THEN -1 ELSE 1)
                          * StrToNat(SubSeq(s, es, ee - 1))
                     ELSE 0) - Len(frac),
                    SkipWhile(s, IF hasexp THEN ee ELSE d, AsciiSpaceChars))
        Exponent(a, b, c, d, es) ==
            Parsed(a, b, c, d, es, SkipWhile(s, es, DigitChars))
        Fraction(a, b, c, d) ==
            IF d <= Len(s) /\ CharAt(s, d) \in {"e", "E"}
            THEN Exponent(a, b, c, d,
                          IF d + 1 <= Len(s) /\ CharAt(s, d + 1) \in {"+", "-"}
                          THEN d + 2 ELSE d + 1)
            ELSE Parsed(a, b, c, d, d, d)
        Integral(a, b, c) ==
            Fraction(a, b, c,
                     IF c <= Len(s) /\ CharAt(s, c) = "."
                     THEN SkipWhile(s, c + 1, DigitChars) ELSE c)
        Signed(a, b) == Integral(a, b, SkipWhile(s, b, DigitChars))
        Blanks(a) ==
            Signed(a, IF a <= Len(s) /\ CharAt(s, a) \in {"+", "-"} THEN a + 1 ELSE a)
    IN Blanks(SkipWhile(s, 1, AsciiSpaceChars))

\* str() of the int a cell spells
IntText(n) ==
    IF n.digits = "" THEN "0"
    ELSE (IF n.negative THEN "-" ELSE "") \o n.digits \o Zeros(n.decpt - Len(n.digits))

\* repr() of the float a cell spells: positional for 1e-4 <= |x| < 1e16,
\* with an exponent of at least two digits otherwise
FloatText(n) ==
    LET sign == IF n.negative THEN "-" ELSE ""
        k    == Len(n.digits)
        e    == n.decpt - 1
    IN IF n.digits = "" THEN sign \o "0.0"
       ELSE IF n.decpt > -4 /\ n.decpt <= 16
       THEN sign \o (IF n.decpt <= 0 THEN "0." \o Zeros(-n.decpt) \o n.digits
                     ELSE IF n.decpt >= k THEN n.digits \o Zeros(n.decpt - k) \o ".0"
                     ELSE SubSeq(n.digits, 1, n.decpt) \o "."
                          \o SubSeq(n.digits, n.decpt + 1, k))
       ELSE sign \o CharAt(n.digits, 1)
                 \o (IF k > 1 THEN "." \o SubSeq(n.digits, 2, k) ELSE "")
                 \o "e" \o (IF e < 0 THEN "-" ELSE "+")
                 \o (IF e > -10 /\ e < 10 THEN "0" ELSE "")
                 \o NatToStr(IF e < 0 THEN -e ELSE e)

NaN == [kind |-> "nan", text |-> "nan"]
Value(kind, text) == [kind |-> kind, text |-> text]

\* a cell read as float64
FloatValue(cell) ==
    IF Number(cell).ok THEN Value("float", FloatText(Number(cell)))
    ELSE IF lower(cell) \in NegInfWords THEN Value("float", "-inf")
    ELSE Value("float", "inf")

\* df_existing = pd.read_csv(output_path): every cell of the NA set is NaN;
\* the others are int64 when all spell integers (float64 when a NaN is
\* among them), float64 when all spell numbers, bool when all spell true
\* or false, and the strings themselves otherwise
read_csv(rows) ==
    LET present  == {i \in DOMAIN rows : rows[i].raw_text \notin NaValues}
        AllInt   == \A i \in present :
                        Number(rows[i].raw_text).ok /\ Number(rows[i].raw_text).integer
        AllFloat == \A i \in present :
                        \/ Number(rows[i].raw_text).ok
                        \/ lower(rows[i].raw_text) \in InfWords \cup NegInfWords
        AllBool  == \A i \in present : lower(rows[i].raw_text) \in {"true", "false"}
        Typed(cell) ==
            IF AllInt
            THEN IF present = DOMAIN rows THEN Value("int", IntText(Number(cell)))
                 ELSE Value("float", FloatText([Number(cell) EXCEPT
                                                   !.negative = @ /\ Number(cell).digits # ""]))
            ELSE IF AllFloat THEN FloatValue(cell)
            ELSE IF AllBool
            THEN Value("bool", IF lower(cell) = "true" THEN "True" ELSE "False")
            ELSE Value("str", cell)
    IN [i \in DOMAIN rows |->
           [raw_text |-> IF i \in present THEN Typed(rows[i].raw_text) ELSE NaN]]

\* df_new = pd.DataFrame([cv_data])
DataFrame(cv_data) == <<[raw_text |-> Value("str", cv_data.raw_text)]>>

\* pd.concat([df_existing, df_new], ignore_index=True)
concat(df_existing, df_new) == df_existing \o df_new

\* df.to_csv(output_path, index=False): the rows of the file written
to_csv(df) ==
    [i \in DOMAIN df |->
        [raw_text |-> IF df[i].raw_text.kind = "nan" THEN "" ELSE df[i].raw_text.text]]

\* add_to_dataset: make the directory of the CSV, then append to the
\* existing CSV or create it; mkdir raises when a regular file is in the
\* place of the directory
add_to_dataset(csv, cv_data) ==
    LET Written(rows) ==
            [error |-> "none",
             csv |-> [parent |-> "directory", exists |-> TRUE, rows |-> rows]]
    IN IF csv.parent = "file" THEN [error |-> "FileExistsError", csv |-> csv]
       ELSE IF csv.exists
       THEN Written(to_csv(concat(read_csv(csv.rows), DataFrame(cv_data))))
       ELSE Written(to_csv(DataFrame(cv_data)))

\* the keys of prompts, in dict order
Styles == <<"gentle", "medium", "brutal">>

generate_critiques_SkipFailed(outcome) ==
    LET all == [i \in 1..Len(Styles) |->
                   [model |-> Styles[i], critique |-> outcome[Styles[i]].text]]
        Succeeded(item) == ~outcome[item.model].raises
    IN SelectSeq(all, Succeeded)

\* generate_critiques, given what generate_content does for each style
generate_critiques(outcome) ==
    [i \in 1..Len(Styles) |->
        [model |-> Styles[i],
         critique |-> IF outcome[Styles[i]].raises
                      THEN "Error: " \o outcome[Styles[i]].text
                      ELSE outcome[Styles[i]].text]]

\* the rows of evaluate_all_models for items[i..], and the detector runs made
RECURSIVE EvaluateFrom(_, _, _, _)
EvaluateFrom(text, items, ground_truth, i) ==
    IF i > Len(items) THEN [rows |-> <<>>, detect_runs |-> 0]
    ELSE LET Row(coverage, detection) ==
                 [model |-> items[i].model,
                  coverage_rate |-> coverage.coverage_rate,
                  sections_addressed |-> coverage.sections_addressed_in_critique,
                  precision |-> detection.precision,
                  recall |-> detection.recall,
                  f1_score |-> detection.f1_score,
                  true_positives |-> detection.true_positives,
                  false_positives |-> detection.false_positives,
                  false_negatives |-> detection.false_negatives,
                  critique_length |-> WordCount(items[i].critique)]
             Before(row, runs, rest) ==
                 [rows |-> <<row>> \o rest.rows, detect_runs |-> runs + rest.detect_runs]
         IN Before(Row(calculate_section_coverage(text, items[i].critique),
                       calculate_issue_detection_metrics(text, items[i].critique,
                                                         ground_truth)),
                   ResolveGroundTruth(text, ground_truth).runs,
                   EvaluateFrom(text, items, ground_truth, i + 1))

evaluate_all_models(text, items, ground_truth) == EvaluateFrom(text, items, ground_truth, 1)

IdxMax_Last(rows) ==
    CHOOSE i \in 1..Len(rows) :
        /\ \A j \in 1..Len(rows) : FCmp(rows[j].f1_score, rows[i].f1_score) <= 0
        /\ \A j \in (i + 1)..Len(rows) : FCmp(rows[j].f1_score, rows[i].f1_score) < 0

\* df_results['f1_score'].idxmax(): the first row holding the maximum
IdxMax(rows) ==
    CHOOSE i \in 1..Len(rows) :
        /\ \A j \in 1..Len(rows) : FCmp(rows[j].f1_score, rows[i].f1_score) <= 0
        /\ \A j \in 1..(i - 1) : FCmp(rows[j].f1_score, rows[i].f1_score) < 0

\* critiques[label]
CritiqueOf(items, label) ==
    items[CHOOSE i \in 1..Len(items) : items[i].model = label].critique

\* critique[:200]
Preview(text) == SubSeq(text, 1, IF Len(text) < 200 THEN Len(text) ELSE 200)

\* results_dict of process_new_cv as json.dump writes it: the rows of
\* df_results, each with the detection and coverage of its critique,
\* computed again, and the start of the critique
DetailedResults(text, rows, items) ==
    [i \in 1..Len(rows) |->
        [detailed_detection |->
             calculate_issue_detection_metrics(text, CritiqueOf(items, rows[i].model),
                                               NoGroundTruth),
         detailed_coverage |->
             calculate_section_coverage(text, CritiqueOf(items, rows[i].model)),
         critique_preview |-> Preview(CritiqueOf(items, rows[i].model))] @@ rows[i]]

(***************************************************************************)
(* The two command line runs: process_new_cv.main and cv_processor.main.   *)
(***************************************************************************)
\* a missing file, a file no extractor can read, and files that pdfplumber
\* reads, fails on, or finds nothing but whitespace in (a space, a newline,
\* U+000B and U+00A0)
PdfFiles ==
    {NoPdf,
     [exists |-> TRUE, plumber |-> Raises, pypdf2 |-> Raises],
     [exists |-> TRUE,
      plumber |-> Extracts("Seeking a data role. Skills: Python. Experience: analyzed data"),
      pypdf2 |-> Raises],
     [exists |-> TRUE, plumber |-> Raises, pypdf2 |-> Extracts("Hello world")],
     [exists |-> TRUE, plumber |-> Extracts(" \n "), pypdf2 |-> Extracts("Hello world")]}

\* what model.generate_content does: returns response.text or raises
GenerateOutcomes == {Extracts(MockMedium), Extracts(""), [raises |-> TRUE, text |-> "400 invalid format"]}

\* no CSV yet, a CSV that earlier calls of add_to_dataset wrote, and a
\* regular file where the directory of the CSV should be
Datasets ==
    {NoDataset,
     [parent |-> "directory", exists |-> TRUE,
      rows |-> <<parse_cv_text("An earlier CV")>>],
     [parent |-> "directory", exists |-> TRUE, rows |-> <<parse_cv_text("007")>>],
     [parent |-> "file", exists |-> FALSE, rows |-> <<>>]}

\* results/new_cv_critiques/<stem>_metrics.json: absent, or a directory
MetricsFiles == {NoMetricsFile, [kind |-> "directory", records |-> <<>>]}

MockCritiques ==
    <<[model |-> "gentle", critique |-> MockGentle],
      [model |-> "medium", critique |-> MockMedium],
      [model |-> "brutal", critique |-> MockBrutal]>>

\* critiques whose words are separated by U+00A0 and by U+000B
SpacedCritiques ==
    <<[model |-> "gentle", critique |-> "good metrics here"],
      [model |-> "medium", critique |-> "ab"],
      [model |-> "brutal", critique |-> "c"]>>

Critiques(items) == [none |-> FALSE, items |-> items]

Truthy_Always(c) == TRUE

\* if critiques:
Truthy(c) == ~c.none /\ Len(c.items) > 0

(***************************************************************************)
(* Direct calls of the scoring methods: each of _detect_cv_issues,         *)
(* calculate_section_coverage, calculate_issue_detection_metrics and       *)
(* evaluate_all_models is called once on arguments chosen at the start.    *)
(***************************************************************************)
\* the document and critique arguments that come with the three mock
\* critiques as the mapping for evaluate_all_models, and those that come
\* with the spaced critiques; the others come with an empty mapping
BatchInputs == {<<SampleCV, MockGentle>>, <<"", MockGentle>>}
SpacedInputs == {<<"Hello world", MockGentle>>}

BatchOf(doc, text) ==
    IF <<doc, text>> \in BatchInputs THEN MockCritiques
    ELSE IF <<doc, text>> \in SpacedInputs THEN SpacedCritiques
    ELSE <<>>

ScoreInputs ==
    {<<d, "", NoGroundTruth>> : d \in DetectorDocs}
    \cup (ScoreDocs \X ScoreCritiques \X ScoreGroundTruths)

InitScore ==
    /\ entry = "api"
    /\ pc = "ready"
    /\ \E args \in ScoreInputs :
          /\ cv_text = args[1]
          /\ critique = args[2]
          /\ ground_truth_issues = args[3]
    /\ issues_result = NotCalled
    /\ coverage_result = NotCalled
    /\ detection_result = NotCalled
    /\ pdf = NoPdf
    /\ extract_error = "none"
    /\ api_key = FALSE
    /\ genai = FALSE
    /\ has_pdfplumber = FALSE
    /\ dataset = NoDataset
    /\ critiques = Critiques(BatchOf(cv_text, critique))
    /\ failed = {}
    /\ df_results = <<>>
    /\ eval_detect_runs = 0
    /\ best_model = ""
    /\ metrics_file = NoMetricsFile
    /\ steps = <<>>
    /\ taxonomies = ClassAttributes

CallDetect ==
    /\ entry = "api"
    /\ ~issues_result.called
    /\ issues_result' = Returned(detect_cv_issues(cv_text))
    /\ UNCHANGED <<entry, pc, cv_text, critique, ground_truth_issues, coverage_result,
                   detection_result>>
    /\ UNCHANGED runVars
    /\ UNCHANGED <<taxonomies, metrics_file>>

CallCoverage ==
    /\ entry = "api"
    /\ ~coverage_result.called
    /\ coverage_result' = Returned(calculate_section_coverage(cv_text, critique))
    /\ UNCHANGED <<entry, pc, cv_text, critique, ground_truth_issues, issues_result,
                   detection_result>>
    /\ UNCHANGED runVars
    /\ UNCHANGED <<taxonomies, metrics_file>>

CallMetrics ==
    /\ entry = "api"
    /\ ~detection_result.called
    /\ detection_result' =
          Returned(calculate_issue_detection_metrics(cv_text, critique, ground_truth_issues))
    /\ ground_truth_issues' = GroundTruthArgument(cv_text, ground_truth_issues)
    /\ UNCHANGED <<entry, pc, cv_text, critique, issues_result, coverage_result>>
    /\ UNCHANGED runVars
    /\ UNCHANGED <<taxonomies, metrics_file>>

\* evaluate_all_models on the critiques mapping and the ground truth argument
CallEvaluate ==
    /\ entry = "api"
    /\ pc = "ready"
    /\ LET Keep(r) == /\ df_results' = r.rows
                       /\ eval_detect_runs' = r.detect_runs
       IN Keep(evaluate_all_models(cv_text, critiques.items, ground_truth_issues))
    /\ ground_truth_issues' =
          IF Len(critiques.items) > 0
          THEN GroundTruthArgument(cv_text, ground_truth_issues)
          ELSE ground_truth_issues
    /\ pc' = "evaluated"
    /\ UNCHANGED <<entry, cv_text, critique, issues_result, coverage_result,
                   detection_result>>
    /\ UNCHANGED <<pdf, extract_error, api_key, genai, has_pdfplumber, dataset, critiques,
                   failed, best_model, steps>>
    /\ UNCHANGED <<taxonomies, metrics_file>>

NextScore == CallDetect \/ CallCoverage \/ CallMetrics \/ CallEvaluate

SpecScore == InitScore /\ [][NextScore]_vars

(***************************************************************************)
(* The two runs.                                                           *)
(***************************************************************************)
Init ==
    /\ entry \in {"process_new_cv", "cv_processor"}
    /\ pc = "extract"
    /\ cv_text = ""
    /\ critique = ""
    /\ ground_truth_issues = NoGroundTruth
    /\ issues_result = NotCalled
    /\ coverage_result = NotCalled
    /\ detection_result = NotCalled
    /\ pdf \in PdfFiles
    /\ extract_error = "none"
    /\ api_key \in BOOLEAN
    /\ genai \in BOOLEAN
    /\ has_pdfplumber \in BOOLEAN
    /\ dataset \in Datasets
    /\ critiques = NoCritiques
    /\ failed = {}
    /\ df_results = <<>>
    /\ eval_detect_runs = 0
    /\ best_model = ""
    /\ metrics_file \in (IF entry = "process_new_cv" THEN MetricsFiles ELSE {NoMetricsFile})
    /\ steps = <<>>
    /\ taxonomies = ClassAttributes

Step(name) == steps' = Append(steps, name)

OnExtractError_Continue(main, error) == "parse"

\* where a run goes when extract_text_from_pdf raised: process_new_cv
\* catches every exception and exits with status 1; cv_processor.main
\* catches FileNotFoundError alone and goes on with its sample text
OnExtractError(main, error) ==
    IF main = "process_new_cv" THEN "exit"
    ELSE IF error = "FileNotFoundError" THEN "generate"
    ELSE "crashed"

\* step 1 of either run
Extract ==
    /\ pc = "extract"
    /\ LET r == extract_text_from_pdf(pdf, has_pdfplumber)
       IN IF r.error = "none"
          THEN /\ cv_text' = r.text
               /\ pc' = "parse"
               /\ Step("extract")
               /\ UNCHANGED extract_error
          ELSE /\ extract_error' = r.error
               /\ pc' = OnExtractError(entry, r.error)
               /\ cv_text' = IF entry = "cv_processor" /\ r.error = "FileNotFoundError"
                             THEN SampleCV ELSE cv_text
               /\ Step("extract_failed")
    /\ UNCHANGED <<entry, pdf, api_key, genai, has_pdfplumber, dataset, critiques, failed,
                   df_results, eval_detect_runs, best_model>>
    /\ UNCHANGED apiVars
    /\ UNCHANGED <<taxonomies, metrics_file>>

Parse ==
    /\ pc = "parse"
    /\ pc' = "add"
    /\ Step("parse")
    /\ UNCHANGED <<entry, cv_text, pdf, extract_error, api_key, genai, has_pdfplumber,
                   dataset, critiques, failed, df_results, eval_detect_runs, best_model>>
    /\ UNCHANGED apiVars
    /\ UNCHANGED <<taxonomies, metrics_file>>

\* step 3: add_to_dataset is called in no try of process_new_cv, and in
\* cv_processor.main in one that catches FileNotFoundError alone, so what
\* it raises ends the run
AddToDataset ==
    /\ pc = "add"
    /\ LET Outcome(r) ==
               /\ dataset' = r.csv
               /\ pc' = IF r.error = "none" THEN "generate" ELSE "crashed"
               /\ Step(IF r.error = "none" THEN "add_to_dataset" ELSE "add_to_dataset_failed")
       IN Outcome(add_to_dataset(dataset, parse_cv_text(cv_text)))
    /\ UNCHANGED <<entry, cv_text, pdf, extract_error, api_key, genai, has_pdfplumber,
                   critiques, failed, df_results, eval_detect_runs, best_model>>
    /\ UNCHANGED apiVars
    /\ UNCHANGED <<taxonomies, metrics_file>>

\* generate_critiques is called: it raises ValueError without the client
\* library; process_new_cv catches that, cv_processor.main does not
Generate ==
    /\ pc = "generate"
    /\ api_key
    /\ IF genai
       THEN \E outcome \in [ToSet(Styles) -> GenerateOutcomes] :
               /\ critiques' = Critiques(generate_critiques(outcome))
               /\ failed' = {st \in ToSet(Styles) : outcome[st].raises}
               /\ pc' = IF entry = "process_new_cv" THEN "save" ELSE "metrics"
               /\ Step("generate_critiques")
       ELSE /\ critiques' = NoCritiques
            /\ failed' = failed
            /\ pc' = IF entry = "process_new_cv" THEN "metrics" ELSE "crashed"
            /\ Step("generate_failed")
    /\ UNCHANGED <<entry, cv_text, pdf, extract_error, api_key, genai, has_pdfplumber,
                   dataset, df_results, eval_detect_runs, best_model>>
    /\ UNCHANGED apiVars
    /\ UNCHANGED <<taxonomies, metrics_file>>

\* no API key: process_new_cv goes on without critiques, cv_processor.main
\* with its mock critiques
SkipGenerate ==
    /\ pc = "generate"
    /\ ~api_key
    /\ critiques' = IF entry = "process_new_cv" THEN NoCritiques ELSE Critiques(MockCritiques)
    /\ pc' = "metrics"
    /\ Step(IF entry = "process_new_cv" THEN "skip_generate" ELSE "mock_critiques")
    /\ UNCHANGED <<entry, cv_text, pdf, extract_error, api_key, genai, has_pdfplumber,
                   dataset, failed, df_results, eval_detect_runs, best_model>>
    /\ UNCHANGED apiVars
    /\ UNCHANGED <<taxonomies, metrics_file>>

\* process_new_cv writes one file per critique; an error there is caught by
\* the handler of step 4, which drops the critiques
SaveCritiques ==
    /\ pc = "save"
    /\ \E saved \in BOOLEAN :
          /\ critiques' = IF saved THEN critiques ELSE NoCritiques
          /\ Step(IF saved THEN "save" ELSE "save_failed")
    /\ pc' = "metrics"
    /\ UNCHANGED <<entry, cv_text, pdf, extract_error, api_key, genai, has_pdfplumber,
                   dataset, failed, df_results, eval_detect_runs, best_model>>
    /\ UNCHANGED apiVars
    /\ UNCHANGED <<taxonomies, metrics_file>>

Evaluate ==
    /\ pc = "metrics"
    /\ Truthy(critiques)
    /\ LET Keep(r) == /\ df_results' = r.rows
                       /\ eval_detect_runs' = r.detect_runs
       IN Keep(evaluate_all_models(cv_text, critiques.items, NoGroundTruth))
    /\ pc' = IF entry = "process_new_cv" THEN "save_metrics" ELSE "detailed"
    /\ Step("evaluate_all_models")
    /\ UNCHANGED <<entry, cv_text, pdf, extract_error, api_key, genai, has_pdfplumber,
                   dataset, critiques, failed, best_model>>
    /\ UNCHANGED apiVars
    /\ UNCHANGED <<taxonomies, metrics_file>>

\* process_new_cv without critiques: only the detected issues are listed
DetectOnly ==
    /\ pc = "metrics"
    /\ ~Truthy(critiques)
    /\ issues_result' = Returned(detect_cv_issues(cv_text))
    /\ pc' = "done"
    /\ Step("detect_only")
    /\ UNCHANGED <<entry, cv_text, critique, ground_truth_issues, coverage_result,
                   detection_result>>
    /\ UNCHANGED <<pdf, extract_error, api_key, genai, has_pdfplumber, dataset, critiques,
                   failed, df_results, eval_detect_runs, best_model>>
    /\ UNCHANGED <<taxonomies, metrics_file>>

\* process_new_cv: every critique is scored again and the rows, with these
\* details, are written to the metrics file, in no try: when open() raises
\* (a directory is at that path) the run ends
SaveMetrics ==
    /\ pc = "save_metrics"
    /\ entry = "process_new_cv"
    /\ IF metrics_file.kind = "directory"
       THEN /\ metrics_file' = metrics_file
            /\ pc' = "crashed"
            /\ Step("save_metrics_failed")
       ELSE /\ metrics_file' = [kind |-> "file",
                                records |-> DetailedResults(cv_text, df_results,
                                                            critiques.items)]
            /\ pc' = "detailed"
            /\ Step("save_metrics")
    /\ UNCHANGED <<entry, cv_text, pdf, extract_error, api_key, genai, has_pdfplumber,
                   dataset, critiques, failed, df_results, eval_detect_runs, best_model>>
    /\ UNCHANGED apiVars
    /\ UNCHANGED taxonomies

\* process_new_cv: the analysis of the best model
BestModel ==
    /\ pc = "detailed"
    /\ entry = "process_new_cv"
    /\ best_model' = df_results[IdxMax(df_results)].model
    /\ critique' = CritiqueOf(critiques.items, best_model')
    /\ detection_result' =
          Returned(calculate_issue_detection_metrics(cv_text, critique', NoGroundTruth))
    /\ coverage_result' = Returned(calculate_section_coverage(cv_text, critique'))
    /\ pc' = "done"
    /\ Step("best_model")
    /\ UNCHANGED <<entry, cv_text, ground_truth_issues, issues_result>>
    /\ UNCHANGED <<pdf, extract_error, api_key, genai, has_pdfplumber, dataset, critiques,
                   failed, df_results, eval_detect_runs>>
    /\ UNCHANGED <<taxonomies, metrics_file>>

\* cv_processor.main: the detailed metrics of the medium model
DetailedMedium ==
    /\ pc = "detailed"
    /\ entry = "cv_processor"
    /\ critique' = CritiqueOf(critiques.items, "medium")
    /\ detection_result' =
          Returned(calculate_issue_detection_metrics(cv_text, critique', NoGroundTruth))
    /\ coverage_result' = Returned(calculate_section_coverage(cv_text, critique'))
    /\ pc' = "done"
    /\ Step("detailed_medium")
    /\ UNCHANGED <<entry, cv_text, ground_truth_issues, issues_result>>
    /\ UNCHANGED <<pdf, extract_error, api_key, genai, has_pdfplumber, dataset, critiques,
                   failed, df_results, eval_detect_runs, best_model>>
    /\ UNCHANGED <<taxonomies, metrics_file>>

Next ==
    \/ Extract
    \/ Parse
    \/ AddToDataset
    \/ Generate
    \/ SkipGenerate
    \/ SaveCritiques
    \/ Evaluate
    \/ DetectOnly
    \/ SaveMetrics
    \/ BestModel
    \/ DetailedMedium

Spec == Init /\ [][Next]_vars

(***************************************************************************)
(* Repeated calls of add_to_dataset on one output path that does not exist *)
(* at first; steps records the cv_data of each call that returned.         *)
(***************************************************************************)
MaxCalls == 4

\* texts that read_csv leaves alone, and texts it takes for a missing
\* value, an integer, a float and a boolean
DatasetTexts == {"", "Hello world", "NA", "007", "2.50", "TRUE"}

\* the directory of the CSV is missing, exists, or is a regular file
DatasetParents == {"none", "directory", "file"}

InitDataset ==
    /\ entry = "dataset"
    /\ pc = "ready"
    /\ cv_text = ""
    /\ critique = ""
    /\ ground_truth_issues = NoGroundTruth
    /\ issues_result = NotCalled
    /\ coverage_result = NotCalled
    /\ detection_result = NotCalled
    /\ pdf = NoPdf
    /\ extract_error = "none"
    /\ api_key = FALSE
    /\ genai = FALSE
    /\ has_pdfplumber = FALSE
    /\ dataset \in {[NoDataset EXCEPT !.parent = p] : p \in DatasetParents}
    /\ critiques = NoCritiques
    /\ failed = {}
    /\ df_results = <<>>
    /\ eval_detect_runs = 0
    /\ best_model = ""
    /\ metrics_file = NoMetricsFile
    /\ steps = <<>>
    /\ taxonomies = ClassAttributes

CallAddToDataset ==
    /\ entry = "dataset"
    /\ Len(steps) < MaxCalls
    /\ \E text \in DatasetTexts :
          LET Outcome(r) ==
                  /\ cv_text' = text
                  /\ dataset' = r.csv
                  /\ steps' = IF r.error = "none"
                              THEN Append(steps, parse_cv_text(text)) ELSE steps
                  /\ pc' = IF r.error = "none" THEN pc ELSE "raised"
          IN Outcome(add_to_dataset(dataset, parse_cv_text(text)))
    /\ UNCHANGED <<entry, pdf, extract_error, api_key, genai, has_pdfplumber, critiques,
                   failed, df_results, eval_detect_runs, best_model>>
    /\ UNCHANGED apiVars
    /\ UNCHANGED <<taxonomies, metrics_file>>

NextDataset == CallAddToDataset

SpecDataset == InitDataset /\ [][NextDataset]_vars

(***************************************************************************)
(* Properties of the scoring methods (SpecScore).                          *)
(***************************************************************************)
InUnitInterval(v) == FCmp(FZero, v) <= 0 /\ FCmp(v, FOne) <= 0

Ratio(n, d) == FDiv(FFromInt(n), FFromInt(d))

\* C1: in every result of calculate_issue_detection_metrics, true positives
\* plus false negatives is the size of the ground-truth set, and true
\* positives plus false positives is the size of the detected set
C1_ConfusionCounts ==
    detection_result.called =>
        LET r == detection_result.value
        IN /\ r.true_positives + r.false_negatives
                 = Cardinality(ToSet(r.ground_truth_issues))
           /\ r.true_positives + r.false_positives
                 = Cardinality(ToSet(r.detected_issues))

C1_Witness ==
    /\ detection_result.called
    /\ detection_result.value.true_positives > 0
    /\ detection_result.value.false_positives > 0
    /\ detection_result.value.false_negatives > 0
    /\ Len(detection_result.value.ground_truth_issues)
          > Cardinality(ToSet(detection_result.value.ground_truth_issues))

\* C2: precision, recall and f1_score of every detection result, and
\* coverage_rate of every coverage result, lie in [0, 1]
C2_RatesInUnitInterval ==
    /\ detection_result.called =>
          /\ InUnitInterval(detection_result.value.precision)
          /\ InUnitInterval(detection_result.value.recall)
          /\ InUnitInterval(detection_result.value.f1_score)
    /\ coverage_result.called => InUnitInterval(coverage_result.value.coverage_rate)

C2_Witness ==
    /\ detection_result.called
    /\ coverage_result.called
    /\ detection_result.value.precision = FOne
    /\ detection_result.value.recall = FOne
    /\ detection_result.value.f1_score = FOne
    /\ FCmp(FZero, coverage_result.value.coverage_rate) < 0
    /\ FCmp(coverage_result.value.coverage_rate, FOne) < 0

ScenarioB ==
    /\ detection_result.called
    /\ critique = MockMedium
    /\ ground_truth_issues = GroundTruth(<<"vague_objective", "no_metrics">>)

\* C3 as stated: scenario B yields true_positives = 1, recall = 0.5,
\* precision = 1.0 and F1 = 0.667 (to three decimals), no_metrics detected
C3_Original ==
    ScenarioB =>
        LET r == detection_result.value
        IN /\ r.true_positives = 1
           /\ r.recall = Ratio(1, 2)
           /\ r.precision = FOne
           /\ FCmp(Ratio(6665, 10000), r.f1_score) <= 0
           /\ FCmp(r.f1_score, Ratio(6675, 10000)) < 0
           /\ "no_metrics" \in ToSet(r.detected_issues)

\* C3 amended: scenario B detects vague_objective (by "vague") as well as
\* no_metrics (by "quantif"), so true_positives = 2 and precision, recall and
\* F1 are all 1.0
C3_ScenarioB ==
    ScenarioB =>
        LET r == detection_result.value
        IN /\ r.detected_issues = <<"vague_objective", "no_metrics">>
           /\ r.true_positives = 2
           /\ r.false_positives = 0
           /\ r.false_negatives = 0
           /\ r.precision = FOne
           /\ r.recall = FOne
           /\ r.f1_score = FOne

C3_Witness == ScenarioB /\ cv_text = SampleCV

AllPresentCovered(r) ==
    \A sec \in DOMAIN r.sections_present : r.sections_present[sec] => r.sections_covered[sec]

\* C4 as stated: coverage_rate is 1 whenever every section present in the
\* document is mentioned in the critique, also when no section is present
C4_Original ==
    coverage_result.called =>
        (AllPresentCovered(coverage_result.value)
            => coverage_result.value.coverage_rate = FOne)

\* C4 amended: coverage_rate is 1 whenever at least one section is present
\* and every present section is mentioned in the critique; when no section
\* is present coverage_rate is 0
C4_FullCoverage ==
    coverage_result.called =>
        LET r == coverage_result.value
        IN /\ (r.total_sections_in_cv > 0 /\ AllPresentCovered(r)) => r.coverage_rate = FOne
           /\ r.total_sections_in_cv = 0 => r.coverage_rate = FZero

C4_Witness ==
    /\ coverage_result.called
    /\ coverage_result.value.total_sections_in_cv > 0
    /\ coverage_result.value.total_sections_in_cv < Len(EXPECTED_CV_ELEMENTS)
    /\ AllPresentCovered(coverage_result.value)

\* C7: a caller-supplied ground truth with an identifier outside
\* COMMON_CV_ISSUES is rejected with a validation error, so the ground truth
\* of every result lies within the taxonomy
C7_InvalidGroundTruthRejected ==
    detection_result.called =>
        /\ (~ground_truth_issues.none
              /\ ~(ToSet(ground_truth_issues.list) \subseteq Names(COMMON_CV_ISSUES)))
           => detection_result.raised = "InvalidGroundTruth"
        /\ detection_result.raised = "none"
           => ToSet(detection_result.value.ground_truth_issues)
                 \subseteq Names(COMMON_CV_ISSUES)

QuantVerbs == <<"increased", "reduced", "improved">>

\* the metric patterns as C9 words them, on lower-cased text: digits then
\* '%', digits then 'x', or one of the verbs followed by a number
QuantifiedText(text) ==
    \E i \in 1..Len(text) :
        \/ IsDigit(text, i) /\ StartsAt(text, i + 1, "%")
        \/ IsDigit(text, i) /\ StartsAt(text, i + 1, "x")
        \/ \E v \in 1..Len(QuantVerbs) :
              /\ StartsAt(text, i, QuantVerbs[v] \o " ")
              /\ IsDigit(text, i + Len(QuantVerbs[v]) + 1)

\* C9: no_metrics is in the detector's result exactly when the text has no
\* percentage, no multiplier and no improvement verb followed by a number,
\* whatever the letter case
C9_NoMetricsRule ==
    issues_result.called =>
        ("no_metrics" \in ToSet(issues_result.value) <=> ~QuantifiedText(lower(cv_text)))

DetectorNames == {"vague_objective", "no_metrics", "buzzwords", "length", "formatting"}

Occurrences(list, name) == Cardinality({i \in 1..Len(list) : list[i] = name})

\* C11: the list _detect_cv_issues returns has no duplicates and holds only
\* vague_objective, no_metrics, buzzwords, length and formatting; so does the
\* ground truth that calculate_issue_detection_metrics derives from it
C11_AutoGroundTruthNames ==
    /\ issues_result.called =>
          /\ ToSet(issues_result.value) \subseteq DetectorNames
          /\ \A name \in DetectorNames : Occurrences(issues_result.value, name) <= 1
    /\ (detection_result.called /\ ground_truth_issues.none) =>
          /\ ToSet(detection_result.value.ground_truth_issues) \subseteq DetectorNames
          /\ \A name \in DetectorNames :
                Occurrences(detection_result.value.ground_truth_issues, name) <= 1

C11_Witness ==
    /\ issues_result.called
    /\ detection_result.called
    /\ ground_truth_issues.none
    /\ Len(issues_result.value) >= 4
    /\ detection_result.value.ground_truth_issues = issues_result.value

\* C12: length is in the detector's result exactly when the text has fewer
\* than 200 or more than 1000 whitespace-separated words, and then once:
\* texts of 50, 199, 1001 and 1500 words are flagged, texts of 200, 500, 999
\* and 1000 words are not, whatever whitespace separates the words
C12_LengthRule ==
    issues_result.called =>
        /\ Occurrences(issues_result.value, "length")
              = (IF WordCount(cv_text) < 200 \/ WordCount(cv_text) > 1000 THEN 1 ELSE 0)
        /\ \A n \in LengthDocWords, sep \in WordSeparators :
              (Len(cv_text) = Len("cv") * n + Len(sep) * (n - 1)
                  /\ cv_text = JoinedWords(n, sep)) =>
                 ("length" \in ToSet(issues_result.value) <=> n \in {50, 199, 1001, 1500})

C12_Witness ==
    /\ issues_result.called
    /\ cv_text = Words(1000)
    /\ "length" \notin ToSet(issues_result.value)

\* C13: calculate_issue_detection_metrics returns without raising, with 0
\* for every rate whose denominator is 0: when nothing is detected and the
\* ground truth is not empty, precision, recall and F1 are 0; when the
\* ground truth is empty, recall and F1 are 0 whatever was detected
C13_ZeroDenominators ==
    detection_result.called =>
        LET r == detection_result.value
        IN /\ detection_result.raised = "none"
           /\ (r.detected_issues = <<>> /\ r.ground_truth_issues # <<>>) =>
                 (r.precision = FZero /\ r.recall = FZero /\ r.f1_score = FZero)
           /\ r.ground_truth_issues = <<>> => (r.recall = FZero /\ r.f1_score = FZero)
           /\ r.true_positives + r.false_positives = 0 => r.precision = FZero
           /\ r.true_positives + r.false_negatives = 0 => r.recall = FZero

C13_Witness ==
    /\ detection_result.called
    /\ detection_result.value.ground_truth_issues = <<>>
    /\ detection_result.value.false_positives > 1

EmptyDocumentIssues == <<"no_metrics", "length", "formatting">>

AllRatesZero(r) == r.precision = FZero /\ r.recall = FZero /\ r.f1_score = FZero

\* C14 as stated: no scoring method raises on an empty document, every
\* section is reported absent, and coverage_rate, precision, recall and F1
\* are all 0 whatever the critique
C14_Original ==
    cv_text = "" =>
        /\ coverage_result.called =>
              /\ coverage_result.raised = "none"
              /\ \A sec \in Names(EXPECTED_CV_ELEMENTS) :
                    ~coverage_result.value.sections_present[sec]
              /\ coverage_result.value.coverage_rate = FZero
        /\ detection_result.called =>
              /\ detection_result.raised = "none"
              /\ AllRatesZero(detection_result.value)

\* C14 amended: no scoring method raises on an empty document; every section
\* is reported absent and coverage_rate is 0; the detector returns
\* no_metrics, length, formatting, and precision, recall and F1 are 0 when the
\* critique mentions no issue of the ground truth and all positive when it
\* mentions one
C14_EmptyDocument ==
    cv_text = "" =>
        /\ issues_result.called =>
              /\ issues_result.raised = "none"
              /\ issues_result.value = EmptyDocumentIssues
        /\ coverage_result.called =>
              /\ coverage_result.raised = "none"
              /\ \A sec \in Names(EXPECTED_CV_ELEMENTS) :
                    ~coverage_result.value.sections_present[sec]
              /\ coverage_result.value.total_sections_in_cv = 0
              /\ coverage_result.value.coverage_rate = FZero
        /\ detection_result.called =>
              LET r == detection_result.value
              IN /\ detection_result.raised = "none"
                 /\ ground_truth_issues.none => r.ground_truth_issues = EmptyDocumentIssues
                 /\ r.true_positives = 0 => AllRatesZero(r)
                 /\ r.true_positives > 0 =>
                       /\ FCmp(FZero, r.precision) < 0
                       /\ FCmp(FZero, r.recall) < 0
                       /\ FCmp(FZero, r.f1_score) < 0

C14_Witness ==
    /\ cv_text = ""
    /\ ground_truth_issues.none
    /\ issues_result.called
    /\ coverage_result.called
    /\ Cardinality({sec \in Names(EXPECTED_CV_ELEMENTS) :
                       coverage_result.value.sections_covered[sec]}) > 1
    /\ detection_result.called
    /\ detection_result.value.true_positives > 0

\* C15: no call of _detect_cv_issues, calculate_section_coverage,
\* calculate_issue_detection_metrics or evaluate_all_models changes the two
\* taxonomies, the processor's fields, the document and critique texts, the
\* caller's ground-truth list or the caller's critiques mapping
C15_NoSideEffects ==
    [][NextScore =>
          UNCHANGED <<taxonomies, api_key, genai, has_pdfplumber, dataset, cv_text,
                      critique, ground_truth_issues, critiques>>]_vars

C15_Witness ==
    /\ issues_result.called
    /\ coverage_result.called
    /\ detection_result.called
    /\ pc = "evaluated"
    /\ Len(df_results) = Len(MockCritiques)
    /\ ground_truth_issues = GroundTruth(<<>>)
    /\ critiques = Critiques(MockCritiques)
    /\ taxonomies = ClassAttributes

(***************************************************************************)
(* Properties of the runs (Spec).                                          *)
(***************************************************************************)
Evaluated == Len(df_results) > 0

\* C5 as stated: evaluate_all_models without supplied ground truth runs the
\* detector exactly once for the whole batch
C5_Original == Evaluated => eval_detect_runs = 1

\* C5 amended: evaluate_all_models without supplied ground truth runs the
\* detector once per critique, each time on the same document text, so all
\* rows are scored against the same ground truth
C5_DetectorRunsPerCritique ==
    Evaluated =>
        /\ eval_detect_runs = Len(critiques.items)
        /\ Len(df_results) = Len(critiques.items)
        /\ \A i \in 1..Len(df_results) :
              df_results[i].true_positives + df_results[i].false_negatives
                 = Cardinality(ToSet(detect_cv_issues(cv_text)))

C5_Witness ==
    /\ Evaluated
    /\ entry = "process_new_cv"
    /\ Len(critiques.items) = Len(Styles)
    /\ eval_detect_runs = Len(Styles)

\* C6: the model process_new_cv reports as best F1 is never a style whose
\* generate_content call raised
C6_FailedStyleNeverBest == best_model # "" => best_model \notin failed

AfterExtraction ==
    {"add_to_dataset", "generate_critiques", "mock_critiques", "evaluate_all_models",
     "best_model", "detailed_medium", "detect_only"}

\* C8 as stated: in every entry point, once extract_text_from_pdf has
\* failed, no dataset append, critique generation or scoring step follows
C8_Original ==
    extract_error # "none" => \A j \in 1..Len(steps) : steps[j] \notin AfterExtraction

\* C8 amended: in process_new_cv every extraction error ends the run before
\* any further step; in cv_processor.main every extraction error skips the
\* dataset append, an error other than file-not-found ends the run, and
\* file-not-found makes the run go on with the built-in sample text
C8_ExtractionFailure ==
    extract_error # "none" =>
        /\ \A j \in 1..Len(steps) : steps[j] # "add_to_dataset"
        /\ entry = "process_new_cv" => (pc = "exit" /\ steps = <<"extract_failed">>)
        /\ (entry = "cv_processor" /\ extract_error # "FileNotFoundError")
              => (pc = "crashed" /\ steps = <<"extract_failed">>)
        /\ (entry = "cv_processor" /\ extract_error = "FileNotFoundError")
              => cv_text = SampleCV

C8_Witness ==
    /\ entry = "process_new_cv"
    /\ extract_error = "Exception"
    /\ pc = "exit"

\* C10: the best model is a row of the comparison table with maximum F1,
\* and among the rows sharing that maximum the one whose label was inserted
\* first into the critiques mapping
C10_BestIsFirstMaximum ==
    best_model # "" =>
        \E k \in 1..Len(df_results) :
            /\ df_results[k].model = best_model
            /\ critiques.items[k].model = best_model
            /\ \A j \in 1..Len(df_results) :
                  FCmp(df_results[j].f1_score, df_results[k].f1_score) <= 0
            /\ \A j \in 1..(k - 1) :
                  FCmp(df_results[j].f1_score, df_results[k].f1_score) < 0

C10_Witness ==
    /\ best_model = "medium"
    /\ FCmp(df_results[1].f1_score, df_results[2].f1_score) < 0
    /\ df_results[3].f1_score = df_results[2].f1_score
    /\ FCmp(FZero, df_results[2].f1_score) < 0

\* C16: when generate_critiques ran with an API key and the client
\* library, the mapping it returned has the labels gentle, medium, brutal in
\* that order; a style whose generate_content call raised holds an
\* "Error: ..." placeholder, and every other style, also one after a failed
\* style, holds the text generate_content returned
C16_FailedStyleKeepsBatch ==
    (steps # <<>> /\ steps[Len(steps)] = "generate_critiques") =>
        /\ ~critiques.none
        /\ Len(critiques.items) = Len(Styles)
        /\ \A i \in 1..Len(Styles) :
              /\ critiques.items[i].model = Styles[i]
              /\ Styles[i] \in failed =>
                    StartsAt(critiques.items[i].critique, 1, "Error: ")
              /\ Styles[i] \notin failed =>
                    \E o \in GenerateOutcomes :
                        ~o.raises /\ critiques.items[i].critique = o.text

C16_Witness ==
    /\ steps # <<>>
    /\ steps[Len(steps)] = "generate_critiques"
    /\ failed = {"gentle"}
    /\ critiques.items[1].critique = "Error: 400 invalid format"
    /\ critiques.items[2].critique = MockMedium
    /\ critiques.items[3].critique = ""

\* the place of each step of process_new_cv in the order extract, parse,
\* dataset append, generate (and save), score
StepRank ==
    [extract |-> 1, extract_failed |-> 1, parse |-> 2, add_to_dataset |-> 3,
     add_to_dataset_failed |-> 3,
     generate_critiques |-> 4, generate_failed |-> 4, skip_generate |-> 4,
     save |-> 5, save_failed |-> 5, evaluate_all_models |-> 6, detect_only |-> 6,
     save_metrics |-> 7, save_metrics_failed |-> 7, best_model |-> 8]

Done(name) == \E j \in 1..Len(steps) : steps[j] = name

\* C18: in a process_new_cv run the steps happen in the order extract,
\* parse, dataset append, generate, score; once extraction succeeded
\* add_to_dataset is called before anything else, with or without an API
\* key, and every run that goes on after it has appended its row (a call
\* that raises ends the run there);
\* evaluate_all_models runs only after generate_critiques returned and the
\* critique files were saved; without an API key, or when step 4 raised, the
\* run ends with the auto-detected issues alone and no precision/recall
C18_ProcessNewCvOrder ==
    entry = "process_new_cv" =>
        /\ \A j \in 1..Len(steps) : steps[j] \in DOMAIN StepRank
        /\ \A j \in 1..(Len(steps) - 1) : StepRank[steps[j]] < StepRank[steps[j + 1]]
        /\ (Done("extract") /\ Len(steps) >= 3) =>
              /\ steps[2] = "parse"
              /\ steps[3] \in {"add_to_dataset", "add_to_dataset_failed"}
        /\ (Done("extract") /\ Len(steps) >= 4) =>
              /\ steps[3] = "add_to_dataset"
              /\ dataset.exists
              /\ dataset.rows[Len(dataset.rows)] = parse_cv_text(cv_text)
        /\ Done("add_to_dataset_failed") => (pc = "crashed" /\ Len(steps) = 3)
        /\ (Done("extract") /\ pc = "done") => Done("add_to_dataset")
        /\ Done("evaluate_all_models") => (Done("generate_critiques") /\ Done("save"))
        /\ (pc = "done" /\ (~api_key \/ Done("generate_failed") \/ Done("save_failed"))) =>
              /\ ~Done("evaluate_all_models")
              /\ ~Done("best_model")
              /\ Done("detect_only")
              /\ issues_result.called
              /\ ~detection_result.called
              /\ df_results = <<>>

C18_Witness ==
    /\ entry = "process_new_cv"
    /\ pc = "done"
    /\ api_key
    /\ steps = <<"extract", "parse", "add_to_dataset", "generate_critiques", "save_failed",
                 "detect_only">>

(***************************************************************************)
(* Properties of add_to_dataset (SpecDataset).                             *)
(***************************************************************************)
\* C17: after any sequence of add_to_dataset calls on one path, the dataset
\* exists once a call has returned and holds exactly the rows of these
\* calls as they were stored, one per call, in call order: every later call
\* keeps the rows stored before it and appends its own
C17_OneRowPerCall ==
    /\ dataset.exists <=> steps # <<>>
    /\ dataset.rows = steps

====
